---- MODULE Spec2Model ----
(***************************************************************************)
(* qmk2srgb.py: the generation-time transform of a QMK info.json into the  *)
(* value tables of a SignalRGB plugin (src/qmk2srgb.py, lines 358-430).    *)
(*                                                                         *)
(* Text is modelled as a sequence of characters, each character a string;  *)
(* an ASCII character is itself ("a", "\\", "\""), a non-ASCII character   *)
(* is written by its code point ("U+2191").  Coordinates and matrix        *)
(* indices are non-negative integers, for which CPython's hash(n) = n.     *)
(***************************************************************************)
EXTENDS Integers, Sequences, FiniteSets, TLC

VARIABLES
    inputs,          \* the matched input files, in glob order (parsed documents)
    matrix_sizing,   \* args.matrix_sizing
    fileIdx,         \* position of the per-file loop (1-based index into inputs)
    pc,              \* "file": between files; "led": in the LED loop; "except": in the handler
    ledIdx,          \* position of the LED loop (1-based index into the layout)
    xs, ys,          \* the axis lists
    vkeys,           \* the LED indices
    vkeynames,       \* the names resolved so far (a list; the joined text after line 412)
    vkeypositions,   \* the positions resolved so far (a list of <<ledx, ledy>>)
    unnamed,         \* the fallback counter
    matxs, matys,    \* the collapse memos (dicts)
    exc,             \* the exception being handled (its repr), "" when none
    disk,            \* per output path (o_file), the state of the file there
    stdout           \* the lines printed so far

vars == <<inputs, matrix_sizing, fileIdx, pc, ledIdx, xs, ys, vkeys, vkeynames,
          vkeypositions, unnamed, matxs, matys, exc, disk, stdout>>

----------------------------------------------------------------------------
(* Bounds of the checked input families.                                   *)

MaxLeds == 3
MaxFiles == 2
MaxLabelLen == 3

----------------------------------------------------------------------------
(* CPython's set of small non-negative ints (Objects/setobject.c), which   *)
(* decides the order of list(set(sorted(...))) at lines 367-382.           *)

LINEAR_PROBES == 9
PERTURB_SHIFT == 5
PySet_MINSIZE == 8
Unused == -1

Hash(n) == n

RECURSIVE TwoTo(_)
TwoTo(k) == IF k = 0 THEN 1 ELSE 2 * TwoTo(k - 1)

SeqMin(S) == CHOOSE m \in S : \A o \in S : m <= o

\* The slot (0-based) where key is stored, or the first unused slot of its
\* probe sequence: the loop shared by set_add_entry and set_insert_clean.
RECURSIVE ProbeSlot(_, _, _, _, _)
ProbeSlot(table, mask, key, i, perturb) ==
    LET probes == IF i + LINEAR_PROBES <= mask THEN LINEAR_PROBES ELSE 0
        hits == {j \in i..(i + probes) : table[j + 1] = Unused \/ table[j + 1] = key}
        p == perturb \div TwoTo(PERTURB_SHIFT)
    IN  IF hits # {} THEN SeqMin(hits)
        ELSE ProbeSlot(table, mask, key, (i * 5 + 1 + p) % (mask + 1), p)

SetInsert(so, key) ==
    LET slot == ProbeSlot(so.table, so.mask, key, Hash(key) % (so.mask + 1), Hash(key))
    IN  IF so.table[slot + 1] = key THEN so
        ELSE [so EXCEPT !.table[slot + 1] = key, !.fill = so.fill + 1]

RECURSIVE NewSize(_, _)
NewSize(size, minused) == IF size <= minused THEN NewSize(2 * size, minused) ELSE size

EmptySet(size) == [table |-> [j \in 1..size |-> Unused], mask |-> size - 1, fill |-> 0]

RECURSIVE Reinsert(_, _, _)
Reinsert(so, old, j) ==
    IF j > Len(old) THEN so
    ELSE Reinsert(IF old[j] = Unused THEN so ELSE SetInsert(so, old[j]), old, j + 1)

SetTableResize(so, minused) ==
    Reinsert(EmptySet(NewSize(PySet_MINSIZE, minused)), so.table, 1)

SetAddEntry(so, key) ==
    LET added == SetInsert(so, key)
    IN  IF added.fill = so.fill \/ added.fill * 5 < added.mask * 3 THEN added
        ELSE SetTableResize(added, IF added.fill > 50000 THEN added.fill * 2
                                                         ELSE added.fill * 4)

RECURSIVE SetUpdate(_, _, _)
SetUpdate(so, seq, j) ==
    IF j > Len(seq) THEN so ELSE SetUpdate(SetAddEntry(so, seq[j]), seq, j + 1)

\* The used keys of table[j..], in table order.
RECURSIVE UsedKeys(_, _)
UsedKeys(table, j) ==
    IF j > Len(table) THEN <<>>
    ELSE (IF table[j] = Unused THEN <<>> ELSE <<table[j]>>) \o UsedKeys(table, j + 1)

\* list(set(seq)): the keys in table order.
ListOfSet(seq) == UsedKeys(SetUpdate(EmptySet(PySet_MINSIZE), seq, 1).table, 1)

\* sorted into its place in an ascending list (after the equal values).
RECURSIVE InsertSorted(_, _, _)
InsertSorted(sorted, v, j) ==
    IF j > Len(sorted) THEN Append(sorted, v)
    ELSE IF sorted[j] > v
    THEN SubSeq(sorted, 1, j - 1) \o <<v>> \o SubSeq(sorted, j, Len(sorted))
    ELSE InsertSorted(sorted, v, j + 1)

\* sorted(seq[1..n]): ascending, duplicates kept.
RECURSIVE SortedPrefix(_, _)
SortedPrefix(seq, n) ==
    IF n = 0 THEN <<>> ELSE InsertSorted(SortedPrefix(seq, n - 1), seq[n], 1)

Sorted(seq) == SortedPrefix(seq, Len(seq))

IndexFromOne(list, v) ==
    IF \E j \in 1..Len(list) : list[j] = v
    THEN SeqMin({j \in 1..Len(list) : list[j] = v})
    ELSE -1

\* list.index(v), 0-based; -1 stands for ValueError.
Index(list, v) ==
    IF \E j \in 1..Len(list) : list[j] = v
    THEN SeqMin({j \in 1..Len(list) : list[j] = v}) - 1
    ELSE -1

----------------------------------------------------------------------------
(* Text.                                                                   *)

Digit(d) == CASE d = 0 -> "0" [] d = 1 -> "1" [] d = 2 -> "2" [] d = 3 -> "3"
              [] d = 4 -> "4" [] d = 5 -> "5" [] d = 6 -> "6" [] d = 7 -> "7"
              [] d = 8 -> "8" [] d = 9 -> "9"

\* str(n) of a non-negative int.
RECURSIVE Str(_)
Str(n) == IF n < 10 THEN <<Digit(n)>> ELSE Str(n \div 10) \o <<Digit(n % 10)>>

\* s.replace(old, new) for a one-character old.
RECURSIVE ReplaceFrom(_, _, _, _)
ReplaceFrom(s, j, old, new) ==
    IF j > Len(s) THEN <<>>
    ELSE (IF s[j] = old THEN new ELSE <<s[j]>>) \o ReplaceFrom(s, j + 1, old, new)

Replace(s, old, new) == ReplaceFrom(s, 1, old, new)

\* The places from j on where old stands in s.
MatchesFrom(s, j, old) ==
    {m \in j..(Len(s) - Len(old) + 1) : \A i \in 1..Len(old) : s[m + i - 1] = old[i]}

\* s.replace(old, new) for a text old: the occurrences of old are taken
\* left to right, without overlap.
RECURSIVE ReplaceTextFrom(_, _, _, _)
ReplaceTextFrom(s, j, old, new) ==
    IF MatchesFrom(s, j, old) = {} THEN SubSeq(s, j, Len(s))
    ELSE LET m == SeqMin(MatchesFrom(s, j, old))
         IN  SubSeq(s, j, m - 1) \o new \o ReplaceTextFrom(s, m + Len(old), old, new)

ReplaceText(s, old, new) == ReplaceTextFrom(s, 1, old, new)

Contains(s, c) == \E j \in 1..Len(s) : s[j] = c

\* The characters outside ASCII that the checked labels draw on.
NonAsciiChars == {"U+2191", "U+0080"}

\* str.isascii(): every character below U+0080 (true of the empty string).
IsAscii(s) == \A j \in 1..Len(s) : s[j] \notin NonAsciiChars

\* unicodedata.name(s): TypeError unless s is one character, ValueError when
\* the character has no name (U+0080 is an unnamed control character).
UnicodeName(s) ==
    IF Len(s) # 1
    THEN [raised |-> TRUE, exc |-> "TypeError('name() argument 1 must be a unicode character, not str')", lbl |-> <<>>]
    ELSE IF s[1] = "U+2191"
    THEN [raised |-> FALSE, exc |-> "",
          lbl |-> <<"U", "P", "W", "A", "R", "D", "S", " ", "A", "R", "R", "O", "W">>]
    ELSE [raised |-> TRUE, exc |-> "ValueError('no such name')", lbl |-> <<>>]

\* Lines 403-406: backslashes doubled, then quotes escaped.
Escape(lbl) ==
    LET b == IF Contains(lbl, "\\") THEN Replace(lbl, "\\", <<"\\", "\\">>) ELSE lbl
    IN  IF Contains(b, "\"") THEN Replace(b, "\"", <<"\\", "\"">>) ELSE b

\* Lines 400-406 on a label found in the metadata.
Sanitize(label) ==
    IF IsAscii(label) THEN [raised |-> FALSE, exc |-> "", lbl |-> Escape(label)]
    ELSE LET named == UnicodeName(label)
         IN  IF named.raised THEN named ELSE [named EXCEPT !.lbl = Escape(named.lbl)]

Light == <<"L", "i", "g", "h", "t", " ">>

CountFallbackStuck(n) == n

\* Line 408: unnamed += 1.
CountFallback(n) == n + 1

\* Line 409: f"Light {unnamed}".
FallbackName(n) == Light \o Str(n)

\* Line 412: ", ".join(f'"{x}"' for x in vkeynames).
RECURSIVE JoinNamesFrom(_, _)
JoinNamesFrom(names, j) ==
    IF j > Len(names) THEN <<>>
    ELSE <<"\"">> \o names[j] \o <<"\"">>
         \o (IF j < Len(names) THEN <<",", " ">> ELSE <<>>) \o JoinNamesFrom(names, j + 1)

JoinNames(names) == JoinNamesFrom(names, 1)

\* str([ledx, ledy]).
StrPosition(p) == <<"[">> \o Str(p[1]) \o <<",", " ">> \o Str(p[2]) \o <<"]">>

\* Line 413: ", ".join(str(x) for x in vkeypositions).
RECURSIVE JoinPositionsFrom(_, _)
JoinPositionsFrom(ps, j) ==
    IF j > Len(ps) THEN <<>>
    ELSE StrPosition(ps[j])
         \o (IF j < Len(ps) THEN <<",", " ">> ELSE <<>>) \o JoinPositionsFrom(ps, j + 1)

JoinPositions(ps) == JoinPositionsFrom(ps, 1)

\* Line 383: ", ".join(str(x) for x in range(0, n)).
RECURSIVE JoinRange(_, _)
JoinRange(j, n) ==
    IF j >= n THEN <<>>
    ELSE Str(j) \o (IF j + 1 < n THEN <<",", " ">> \o JoinRange(j + 1, n) ELSE <<>>)

----------------------------------------------------------------------------
(* The parsed document.  A LED is [hasX, x, y, hasMatrix, matrix], matrix  *)
(* = <<row, column>>; a metadata key is [matrix, hasLabel, label]; a       *)
(* document is [manufacturer, keyboard_name, vidIsStr, vid, pid, layout,   *)
(* hasLayouts, keys], keys being the layout list of the first entry of     *)
(* "layouts" and vid the text of usb.vid when it is a string.              *)

SelectXRaw(led) == led.x

\* Lines 370, 391: the value an LED contributes to the X axis.
SelectX(led) ==
    IF ~matrix_sizing \/ ~led.hasMatrix THEN led.x ELSE led.matrix[2]

\* Lines 378, 392: the value an LED contributes to the Y axis.
SelectY(led) ==
    IF ~matrix_sizing \/ ~led.hasMatrix THEN led.y ELSE led.matrix[1]

\* Lines 370, 391: x["x"] raises KeyError when the entry has no "x" and its
\* raw coordinate is the one selected.
SelectRaises(led) == (~matrix_sizing \/ ~led.hasMatrix) /\ ~led.hasX

\* Lines 370-371 and 378-379: the generator expressions over the layout.
AxisValuesX(layout) == [j \in 1..Len(layout) |-> SelectX(layout[j])]
AxisValuesY(layout) == [j \in 1..Len(layout) |-> SelectY(layout[j])]

\* Lines 367-374 and 375-382: list(set(sorted(...))).
AxisList(values) == ListOfSet(Sorted(values))

EmptyDict == [k \in {} |-> 0]

\* dict.setdefault(k, v): the dict after the call; the call returns its [k].
SetDefault(d, k, v) ==
    IF k \in DOMAIN d THEN d
    ELSE [j \in DOMAIN d \cup {k} |-> IF j = k THEN v ELSE d[j]]

\* Line 394: the key under which ledx is memoised.
MemoKeyX(led) == led.matrix[1]

\* Line 395: the key under which ledy is memoised.
MemoKeyY(led) == led.matrix[2]

\* Lines 396-398: the first metadata key whose matrix equals the LED's
\* (0 stands for None).
FindKey(doc, led) ==
    IF \E j \in 1..Len(doc.keys) : doc.keys[j].matrix = led.matrix
    THEN SeqMin({j \in 1..Len(doc.keys) : doc.keys[j].matrix = led.matrix})
    ELSE 0

FreshUnnamedLeaky(prev) == prev

\* Line 386: unnamed = 0.
FreshUnnamed(prev) == 0

\* Lines 387-388: matxs = {}, matys = {}.
FreshMemo(prev) == EmptyDict

\* Line 422: str(len(xs)) is what replaces $NX$.
Width == Len(xs)

\* Line 423: str(len(ys)) is what replaces $NY$.
Height == Len(ys)

UpperChars == <<"A", "B", "C", "D", "E", "F", "G", "H", "I", "J", "K", "L", "M",
                "N", "O", "P", "Q", "R", "S", "T", "U", "V", "W", "X", "Y", "Z">>
LowerChars == <<"a", "b", "c", "d", "e", "f", "g", "h", "i", "j", "k", "l", "m",
                "n", "o", "p", "q", "r", "s", "t", "u", "v", "w", "x", "y", "z">>
DigitChars == {"0", "1", "2", "3", "4", "5", "6", "7", "8", "9"}

\* str.isalnum() of an ASCII character.
IsAlnum(c) ==
    \/ c \in DigitChars
    \/ \E j \in 1..Len(UpperChars) : c = UpperChars[j] \/ c = LowerChars[j]

\* str.lower() of an ASCII character.
LowerChar(c) ==
    IF \E j \in 1..Len(UpperChars) : c = UpperChars[j]
    THEN LowerChars[CHOOSE j \in 1..Len(UpperChars) : c = UpperChars[j]]
    ELSE c

\* Line 415 from position j on: the alphanumeric characters and the spaces
\* are kept, lowercased, each space written as an underscore.
RECURSIVE FileNameFrom(_, _)
FileNameFrom(name, j) ==
    IF j > Len(name) THEN <<>>
    ELSE (IF name[j] = " " THEN <<"_">>
          ELSE IF IsAlnum(name[j]) THEN <<LowerChar(name[j])>>
          ELSE <<>>) \o FileNameFrom(name, j + 1)

\* Line 364: k_name = f"{manufacturer} {keyboard_name}".
KName(doc) == doc.manufacturer \o <<" ">> \o doc.keyboard_name

\* Lines 414-416: o_file, relative to --outdir.
OutputPath(doc) == FileNameFrom(KName(doc), 1) \o <<".", "j", "s">>

\* The placeholders of the template.
PhKNAME == <<"$", "K", "N", "A", "M", "E", "$">>
PhVID == <<"$", "V", "I", "D", "$">>
PhPID == <<"$", "P", "I", "D", "$">>
PhNX == <<"$", "N", "X", "$">>
PhNY == <<"$", "N", "Y", "$">>
PhVK == <<"$", "V", "K", "$">>
PhVKNAMES == <<"$", "V", "K", "N", "A", "M", "E", "S", "$">>
PhVKPOS == <<"$", "V", "K", "P", "O", "S", "$">>

\* The stretches of the template between its placeholders.  None of them
\* holds a placeholder, nor a part of one next to a placeholder, so each is
\* one element of the text, shortened to its ends.
TplHead == "export function Name() { return \""
TplToVid == " QMK Keyboard\"; } ... export function VendorId() { return "
TplToPid == "; } export function ProductId() { return "
TplToNx == "; } ... export function Size() { return ["
TplNxNy == ", "
TplToVk == "]; } ... const vKeys = [ "
TplToVkNames == " ]; const vKeyNames = [ "
TplToVkPos == " ]; const vKeyPositions = [ "
TplTail == " ]; let LEDCount = 0; ... export function Image() { return \"\"; }"

\* Lines 26-344.
TEMPLATE ==
    <<TplHead>> \o PhKNAME \o <<TplToVid>> \o PhVID \o <<TplToPid>> \o PhPID
    \o <<TplToNx>> \o PhNX \o <<TplNxNy>> \o PhNY \o <<TplToVk>> \o PhVK
    \o <<TplToVkNames>> \o PhVKNAMES \o <<TplToVkPos>> \o PhVKPOS \o <<TplTail>>

\* Lines 419-426: the chain of replace calls, each on the whole text the
\* call before it returned, values inserted earlier included.
FillTemplate(k_name, vid, pid, nx, ny, vk, names, positions) ==
    LET t1 == ReplaceText(TEMPLATE, PhKNAME, k_name)
        t2 == ReplaceText(t1, PhVID, vid)
        t3 == ReplaceText(t2, PhPID, pid)
        t4 == ReplaceText(t3, PhNX, nx)
        t5 == ReplaceText(t4, PhNY, ny)
        t6 == ReplaceText(t5, PhVK, vk)
        t7 == ReplaceText(t6, PhVKNAMES, names)
    IN  ReplaceText(t7, PhVKPOS, positions)

\* The text of a written file between two stretches of the template.
Slot(text, before, after) ==
    LET a == CHOOSE j \in 1..Len(text) : text[j] = before
        b == CHOOSE j \in 1..Len(text) : j > a /\ text[j] = after
    IN  SubSeq(text, a + 1, b - 1)

\* A written file, by what stands in the place of each placeholder.
Written(text) ==
    [state |-> "written",
     KNAME |-> Slot(text, TplHead, TplToVid),
     VID |-> Slot(text, TplToVid, TplToPid),
     PID |-> Slot(text, TplToPid, TplToNx),
     NX |-> Slot(text, TplToNx, TplNxNy),
     NY |-> Slot(text, TplNxNy, TplToVk),
     VK |-> Slot(text, TplToVk, TplToVkNames),
     VKNAMES |-> Slot(text, TplToVkNames, TplToVkPos),
     VKPOS |-> Slot(text, TplToVkPos, TplTail)]

NoFile == [state |-> "absent", KNAME |-> <<>>, VID |-> <<>>, PID |-> <<>>,
           NX |-> <<>>, NY |-> <<>>, VK |-> <<>>, VKNAMES |-> <<>>, VKPOS |-> <<>>]

----------------------------------------------------------------------------
(* The checked input families.                                             *)

Led(x, y) == [hasX |-> TRUE, x |-> x, y |-> y, hasMatrix |-> FALSE, matrix |-> <<0, 0>>]

KeyLed(x, y, m) == [hasX |-> TRUE, x |-> x, y |-> y, hasMatrix |-> TRUE, matrix |-> m]

\* An entry with no "x".
LedWithoutX == [hasX |-> FALSE, x |-> 0, y |-> 1, hasMatrix |-> FALSE, matrix |-> <<0, 0>>]

Key(m, label) == [matrix |-> m, hasLabel |-> TRUE, label |-> label]

KeyWithoutLabel(m) == [matrix |-> m, hasLabel |-> FALSE, label |-> <<>>]

Doc(name, layout, hasLayouts, keys, vidIsStr) ==
    [manufacturer |-> <<"M">>, keyboard_name |-> name, layout |-> layout,
     hasLayouts |-> hasLayouts, keys |-> keys, vidIsStr |-> vidIsStr,
     vid |-> <<"0", "x", "1">>, pid |-> <<"0", "x", "2">>]

\* Keyboard names: K1 and k-1 are written to the same output path.
K1 == <<"K", "1">>
K2 == <<"K", "2">>
K1Dashed == <<"k", "-", "1">>

\* A key whose label is the text of a placeholder that is still to be
\* replaced when the names are inserted.
PlaceholderKeys == << Key(<<0, 1>>, PhVKPOS) >>

SeqsUpTo(S, n) == UNION {[1..k -> S] : k \in 0..n}

Rows == {0, 1}
Cols == {1, 8}
RawXY == {<<1, 1>>, <<8, 1>>, <<1, 8>>}
KeyXY == {<<1, 1>>, <<8, 8>>}

\* A labelled key, a key with an empty label, a key whose first entry has no
\* label (a later entry of the same matrix has one); <<1, 8>> has no entry.
StdKeys == << Key(<<0, 1>>, <<"E", "s", "c">>),
              Key(<<0, 8>>, <<>>),
              KeyWithoutLabel(<<1, 1>>),
              Key(<<1, 1>>, <<"F", "1">>) >>

\* A key whose label is two non-ASCII characters.
ArrowKeys == << Key(<<0, 1>>, <<"U+2191", "U+2191">>) >>

GridLeds ==
    {Led(p[1], p[2]) : p \in RawXY}
    \cup {KeyLed(p[1], p[2], <<r, c>>) : p \in KeyXY, r \in Rows, c \in Cols}
    \cup {LedWithoutX}

GridDocs ==
    {Doc(K1, layout, hasLayouts, IF hasLayouts THEN StdKeys ELSE <<>>, TRUE) :
        layout \in SeqsUpTo(GridLeds, MaxLeds), hasLayouts \in BOOLEAN}

GridBatches == {<<d>> : d \in GridDocs}

LabelChars == {"a", "\\", "\""} \cup NonAsciiChars

\* Labels and a keyboard name that are the text of a placeholder: of one
\* replaced after the names are inserted, of one replaced before.
PlaceholderLabels == {PhVKPOS, PhNX}

LabelDocs ==
    {Doc(K1, <<KeyLed(1, 1, <<0, 1>>)>>, TRUE, <<Key(<<0, 1>>, label)>>, TRUE) :
        label \in SeqsUpTo(LabelChars, MaxLabelLen) \cup PlaceholderLabels}
    \cup {Doc(PhNX, <<KeyLed(1, 1, <<0, 1>>)>>, TRUE, <<Key(<<0, 1>>, <<"a">>)>>, TRUE)}

LabelBatches == {<<d>> : d \in LabelDocs}

BatchLayouts ==
    { <<Led(1, 1), KeyLed(8, 1, <<0, 1>>)>>,
      <<KeyLed(8, 1, <<0, 1>>), KeyLed(8, 8, <<1, 1>>)>> }

BatchNames == {K1, K1Dashed, K2}

\* Valid documents with and without layouts, a document whose label makes
\* the LED loop raise, one whose label is a placeholder, one with a vid that
\* is a number and one with an entry without "x", each under every keyboard
\* name.
BatchDocs ==
    {Doc(n, layout, FALSE, <<>>, TRUE) : n \in BatchNames, layout \in BatchLayouts}
    \cup {Doc(n, layout, TRUE, keys, TRUE) :
            n \in BatchNames, layout \in BatchLayouts, keys \in {StdKeys, ArrowKeys}}
    \cup {Doc(n, <<Led(1, 1), KeyLed(8, 1, <<0, 1>>)>>, TRUE, PlaceholderKeys, TRUE) :
            n \in BatchNames}
    \cup {Doc(n, <<Led(1, 1), KeyLed(8, 1, <<0, 1>>)>>, FALSE, <<>>, FALSE) : n \in BatchNames}
    \cup {Doc(n, <<Led(1, 1), LedWithoutX>>, FALSE, <<>>, TRUE) : n \in BatchNames}

FileBatches == SeqsUpTo(BatchDocs, MaxFiles) \ {<<>>}

----------------------------------------------------------------------------
(* The program.                                                            *)

InitWith(batches) ==
    /\ inputs \in batches
    /\ matrix_sizing \in BOOLEAN
    /\ fileIdx = 1
    /\ pc = "file"
    /\ ledIdx = 1
    /\ xs = <<>>
    /\ ys = <<>>
    /\ vkeys = <<>>
    /\ vkeynames = <<>>
    /\ vkeypositions = <<>>
    /\ unnamed = 0
    /\ matxs = EmptyDict
    /\ matys = EmptyDict
    /\ exc = ""
    /\ disk = [p \in {OutputPath(inputs[k]) : k \in 1..Len(inputs)} |-> NoFile]
    /\ stdout = <<>>

Init == InitWith(GridBatches)

\* Lines 359-388: the next matched file is read, its axes computed, and the
\* per-file lists, counter and memos set up.
OpenFile ==
    /\ pc = "file"
    /\ fileIdx <= Len(inputs)
    /\ LET layout == inputs[fileIdx].layout
       IN  IF \E j \in 1..Len(layout) : SelectRaises(layout[j])
           THEN /\ pc' = "except"
                /\ exc' = "KeyError('x')"
                /\ UNCHANGED <<ledIdx, xs, ys, vkeys, vkeynames, vkeypositions,
                               unnamed, matxs, matys>>
           ELSE /\ xs' = AxisList(AxisValuesX(layout))
                /\ ys' = AxisList(AxisValuesY(layout))
                /\ vkeys' = JoinRange(0, Len(layout))
                /\ vkeynames' = <<>>
                /\ vkeypositions' = <<>>
                /\ unnamed' = FreshUnnamed(unnamed)
                /\ matxs' = FreshMemo(matxs)
                /\ matys' = FreshMemo(matys)
                /\ ledIdx' = 1
                /\ pc' = "led"
                /\ exc' = exc
    /\ UNCHANGED <<inputs, matrix_sizing, fileIdx, disk, stdout>>

\* Lines 389-411: one iteration of the LED loop.
LedStep ==
    /\ pc = "led"
    /\ ledIdx <= Len(inputs[fileIdx].layout)
    /\ LET doc == inputs[fileIdx]
           led == doc.layout[ledIdx]
           rankx == Index(xs, SelectX(led))
           ranky == Index(ys, SelectY(led))
           keyed == led.hasMatrix /\ doc.hasLayouts
           memo == keyed /\ matrix_sizing
           mx == IF memo THEN SetDefault(matxs, MemoKeyX(led), rankx) ELSE matxs
           my == IF memo THEN SetDefault(matys, MemoKeyY(led), ranky) ELSE matys
           ledx == IF memo THEN mx[MemoKeyX(led)] ELSE rankx
           ledy == IF memo THEN my[MemoKeyY(led)] ELSE ranky
           key == IF keyed THEN FindKey(doc, led) ELSE 0
           labelled == key # 0 /\ doc.keys[key].hasLabel
           res == IF labelled THEN Sanitize(doc.keys[key].label)
                  ELSE [raised |-> FALSE, exc |-> "", lbl |-> <<>>]
       IN  IF rankx = -1 \/ ranky = -1
           THEN /\ pc' = "except"
                /\ exc' = "ValueError('not in list')"
                /\ UNCHANGED <<ledIdx, vkeynames, vkeypositions, unnamed, matxs, matys>>
           ELSE /\ matxs' = mx
                /\ matys' = my
                /\ IF res.raised
                   THEN /\ pc' = "except"
                        /\ exc' = res.exc
                        /\ UNCHANGED <<ledIdx, vkeynames, vkeypositions, unnamed>>
                   ELSE /\ unnamed' = IF labelled THEN unnamed ELSE CountFallback(unnamed)
                        /\ vkeynames' = Append(vkeynames,
                                               IF labelled THEN res.lbl
                                               ELSE FallbackName(unnamed'))
                        /\ vkeypositions' = Append(vkeypositions, <<ledx, ledy>>)
                        /\ ledIdx' = ledIdx + 1
                        /\ pc' = "led"
                        /\ exc' = exc
    /\ UNCHANGED <<inputs, matrix_sizing, fileIdx, xs, ys, vkeys, disk, stdout>>

\* Lines 412-428: the lists are joined, the output file o_file is opened for
\* writing (created or truncated, whichever input it held the output of),
\* the template is filled in by the chain of replace calls and written.
\* str.replace raises TypeError for a vid that is not a string, after the
\* file was opened and before anything is written to it.
WriteFile ==
    /\ pc = "led"
    /\ ledIdx > Len(inputs[fileIdx].layout)
    /\ vkeynames' = JoinNames(vkeynames)
    /\ vkeypositions' = JoinPositions(vkeypositions)
    /\ IF ~inputs[fileIdx].vidIsStr
       THEN /\ disk' = [disk EXCEPT ![OutputPath(inputs[fileIdx])] =
                           [NoFile EXCEPT !.state = "empty"]]
            /\ pc' = "except"
            /\ exc' = "TypeError('replace() argument 2 must be str, not int')"
            /\ UNCHANGED <<fileIdx, stdout>>
       ELSE /\ disk' = [disk EXCEPT ![OutputPath(inputs[fileIdx])] =
                           Written(FillTemplate(KName(inputs[fileIdx]),
                                                inputs[fileIdx].vid, inputs[fileIdx].pid,
                                                Str(Width), Str(Height), vkeys,
                                                JoinNames(vkeynames),
                                                JoinPositions(vkeypositions)))]
            /\ stdout' = Append(stdout, <<"Successfully created",
                                             OutputPath(inputs[fileIdx])>>)
            /\ fileIdx' = fileIdx + 1
            /\ pc' = "file"
            /\ exc' = exc
    /\ UNCHANGED <<inputs, matrix_sizing, ledIdx, xs, ys, vkeys, unnamed, matxs, matys>>

\* Lines 429-430: the file is reported as skipped and the loop goes on.
Except ==
    /\ pc = "except"
    /\ stdout' = Append(stdout, <<"Skipping", fileIdx, exc>>)
    /\ exc' = ""
    /\ fileIdx' = fileIdx + 1
    /\ pc' = "file"
    /\ UNCHANGED <<inputs, matrix_sizing, ledIdx, xs, ys, vkeys, vkeynames,
                   vkeypositions, unnamed, matxs, matys, disk>>

Next == OpenFile \/ LedStep \/ WriteFile \/ Except

\* Single documents over the LED and key families (grid and naming).
Spec == Init /\ [][Next]_vars

\* Single documents with one keyed LED, over all labels up to MaxLabelLen.
SpecLabel == InitWith(LabelBatches) /\ [][Next]_vars

\* Batches of up to MaxFiles documents, failing ones included.
SpecBatch == InitWith(FileBatches) /\ [][Next]_vars

----------------------------------------------------------------------------
(* The properties.  In a state with pc = "led", vkeynames and              *)
(* vkeypositions hold the names and positions of the first ledIdx - 1 LEDs *)
(* of inputs[fileIdx], and Width and Height are the values that replace    *)
(* $NX$ and $NY$.                                                          *)

Layout == inputs[fileIdx].layout

\* The value an LED contributes to an axis, as the specification states it:
\* matrix column / row under matrix sizing when the LED carries a matrix,
\* its raw x / y otherwise.
SelectedX(sizing, led) == IF sizing /\ led.hasMatrix THEN led.matrix[2] ELSE led.x
SelectedY(sizing, led) == IF sizing /\ led.hasMatrix THEN led.matrix[1] ELSE led.y

DistinctX(sizing, layout) == {SelectedX(sizing, layout[k]) : k \in 1..Len(layout)}
DistinctY(sizing, layout) == {SelectedY(sizing, layout[k]) : k \in 1..Len(layout)}

\* The metadata entry matched by an LED: the first with an equal matrix pair.
MatchedKeys(doc, led) == {j \in 1..Len(doc.keys) : doc.keys[j].matrix = led.matrix}
HasMatch(doc, led) == led.hasMatrix /\ doc.hasLayouts /\ MatchedKeys(doc, led) # {}
Matched(doc, led) == doc.keys[SeqMin(MatchedKeys(doc, led))]

IsFallbackName(name) == Len(name) > Len(Light) /\ SubSeq(name, 1, Len(Light)) = Light

Skipped(k) == \E j \in 1..Len(stdout) : stdout[j][1] = "Skipping" /\ stdout[j][2] = k

\* The output path of the k-th input.
Path(k) == OutputPath(inputs[k])

\* Every processed file prints one line, in order: the k-th line is the
\* k-th file's.
Created(k) == k <= Len(stdout) /\ stdout[k] = <<"Successfully created", Path(k)>>

\* The processed inputs that were created at path p.
CreatorsOf(p) == {k \in 1..Len(inputs) : k < fileIdx /\ Path(k) = p /\ Created(k)}

SetMax(S) == CHOOSE v \in S : \A w \in S : w <= v

\* The file at the path of input k holds what was written for input k: it
\* was created and no input from k on, up to the current one, has its path.
HoldsOutputOf(k) ==
    /\ Created(k)
    /\ \A m \in 1..Len(inputs) : (k < m /\ m <= fileIdx) => Path(m) # Path(k)

\* Two inputs that differ in their names at most.
SameContent(a, b) ==
    /\ a.layout = b.layout /\ a.hasLayouts = b.hasLayouts
    /\ a.keys = b.keys /\ a.vidIsStr = b.vidIsStr
    /\ a.vid = b.vid /\ a.pid = b.pid

\* C1: under matrix sizing, two LEDs that both carry a matrix and share the
\* matrix row have equal gridY, and two that share the matrix column have
\* equal gridX, with or without layouts metadata.
C1_CollapsingLaw ==
    (pc = "led" /\ matrix_sizing) =>
        \A i, j \in 1..Len(vkeypositions) :
            (Layout[i].hasMatrix /\ Layout[j].hasMatrix) =>
                /\ Layout[i].matrix[1] = Layout[j].matrix[1]
                      => vkeypositions[i][2] = vkeypositions[j][2]
                /\ Layout[i].matrix[2] = Layout[j].matrix[2]
                      => vkeypositions[i][1] = vkeypositions[j][1]

\* C2: outside collapsing mode, the gridX of an LED is the number of distinct
\* selected X values of the layout strictly below its own, and likewise its
\* gridY for Y.
C2_AscendingRank ==
    pc = "led" =>
        \A i \in 1..Len(vkeypositions) :
            LET led == Layout[i]
                collapsing == matrix_sizing /\ led.hasMatrix /\ inputs[fileIdx].hasLayouts
                below(S, v) == Cardinality({w \in S : w < v})
            IN  ~collapsing =>
                    /\ vkeypositions[i][1] =
                          below(DistinctX(matrix_sizing, Layout), SelectedX(matrix_sizing, led))
                    /\ vkeypositions[i][2] =
                          below(DistinctY(matrix_sizing, Layout), SelectedY(matrix_sizing, led))

\* C3: in every mode, every position lies inside the grid:
\* 0 <= gridX < width and 0 <= gridY < height.
C3_GridBounds ==
    pc = "led" =>
        \A i \in 1..Len(vkeypositions) :
            /\ 0 <= vkeypositions[i][1] /\ vkeypositions[i][1] < Width
            /\ 0 <= vkeypositions[i][2] /\ vkeypositions[i][2] < Height

\* A finished LED loop under matrix sizing with layouts metadata, in which a
\* memo moved an LED away from the rank of its own column on a grid at least
\* two wide.
C3_Witness ==
    /\ pc = "led" /\ ledIdx > Len(Layout)
    /\ matrix_sizing /\ inputs[fileIdx].hasLayouts
    /\ Width >= 2 /\ Height >= 2
    /\ \E i \in 1..Len(vkeypositions) :
          /\ Layout[i].hasMatrix
          /\ vkeypositions[i][1] # Index(xs, SelectX(Layout[i]))

\* C4: every processed file ends either skipped with a diagnostic or
\* created, and a skipped file has no output written for it: between two
\* files, each output path holds a complete output when an input was
\* created there last, and no file at all when no input was created there.
C4_FailureIsolation ==
    /\ \A k \in 1..Len(inputs) : k < fileIdx => (Skipped(k) <=> ~Created(k))
    /\ pc = "file" =>
          \A p \in DOMAIN disk :
              IF CreatorsOf(p) = {}
              THEN disk[p].state = "absent"
              ELSE /\ disk[p].state = "written"
                   /\ \A m \in 1..Len(inputs) :
                         (SetMax(CreatorsOf(p)) < m /\ m < fileIdx) => Path(m) # p

\* C5: the fallback counter and both memos are zero / empty when the LED
\* loop of a file starts, and two files of a batch with the same content,
\* each holding its own output, are written the same arrays and dimensions,
\* whatever was processed before each.
C5_PerFileScoping ==
    /\ (pc = "led" /\ ledIdx = 1) =>
          unnamed = 0 /\ matxs = EmptyDict /\ matys = EmptyDict
    /\ \A i, j \in 1..Len(inputs) :
          (HoldsOutputOf(i) /\ HoldsOutputOf(j) /\ SameContent(inputs[i], inputs[j]))
              => /\ disk[Path(i)].VKNAMES = disk[Path(j)].VKNAMES
                 /\ disk[Path(i)].VKPOS = disk[Path(j)].VKPOS
                 /\ disk[Path(i)].VK = disk[Path(j)].VK
                 /\ disk[Path(i)].NX = disk[Path(j)].NX
                 /\ disk[Path(i)].NY = disk[Path(j)].NY

\* The second file of a batch has finished its LED loop under matrix
\* sizing, with fallback names and memo entries of its own, after the first
\* file failed part-way through its loop, past a fallback name and a memo
\* entry.
C5_Witness ==
    /\ fileIdx = 2 /\ pc = "led" /\ ledIdx > Len(Layout)
    /\ matrix_sizing
    /\ unnamed >= 1 /\ matxs # EmptyDict
    /\ Skipped(1) /\ ~Created(1)
    /\ ~inputs[1].layout[1].hasMatrix
    /\ \A j \in 1..Len(inputs[1].layout) : inputs[1].layout[j].hasX

\* C6: an LED gets a fallback name "Light N" whenever it has no matrix, or
\* layouts is absent, or no metadata entry matches its matrix, or the matched
\* entry's label is missing or empty; it gets its label only when a matching
\* entry with a non-empty label exists.
C6_FallbackCondition ==
    pc = "led" =>
        \A i \in 1..Len(vkeynames) :
            LET doc == inputs[fileIdx]
                led == Layout[i]
                labelled == /\ HasMatch(doc, led)
                            /\ Matched(doc, led).hasLabel
                            /\ Matched(doc, led).label # <<>>
            IN  IsFallbackName(vkeynames[i]) <=> ~labelled

\* The LEDs that the code gives no label: no matrix, no layouts, no matching
\* entry, or a matched entry without a "label" field.
GetsFallback(doc, led) == ~(HasMatch(doc, led) /\ Matched(doc, led).hasLabel)

FallbacksUpTo(doc, i) == {k \in 1..i : GetsFallback(doc, doc.layout[k])}

\* C7: the Nth LED of a file, in layout order, to get a fallback name gets
\* exactly "Light N", N counting fallback names only, from 1; no two LEDs
\* share a fallback name.
C7_FallbackNumbering ==
    pc = "led" =>
        LET doc == inputs[fileIdx]
            fallbacks == FallbacksUpTo(doc, Len(vkeynames))
        IN  /\ \A i \in fallbacks :
                  vkeynames[i] = Light \o Str(Cardinality(FallbacksUpTo(doc, i)))
            /\ \A i, j \in fallbacks : i # j => vkeynames[i] # vkeynames[j]

\* Three LEDs resolved, the first and third with fallback names and the
\* second with its label: the third LED is "Light 2".
C7_Witness ==
    /\ pc = "led" /\ Len(vkeynames) = 3
    /\ FallbacksUpTo(inputs[fileIdx], 3) = {1, 3}
    /\ vkeynames[2] = <<"E", "s", "c">>
    /\ vkeynames[3] = Light \o <<"2">>

HasNonAsciiLabel(doc) ==
    \E i \in 1..Len(doc.layout) :
        /\ HasMatch(doc, doc.layout[i])
        /\ Matched(doc, doc.layout[i]).hasLabel
        /\ ~IsAscii(Matched(doc, doc.layout[i]).label)

\* C8: a matched label with a non-ASCII character, of any length, never
\* makes label resolution raise: the file is emitted, not skipped.
C8_NonAsciiNeverFails ==
    \A k \in 1..Len(inputs) :
        (k < fileIdx /\ HasNonAsciiLabel(inputs[k])) =>
            Created(k) /\ ~Skipped(k) /\ HoldsOutputOf(k) /\ disk[Path(k)].state = "written"

\* C9: the width of an emitted file is the number of distinct selected X
\* values of its LEDs and its height the number of distinct selected Y
\* values, mixed layouts included.
C9_GridDimensions ==
    \A k \in 1..Len(inputs) :
        HoldsOutputOf(k) =>
            /\ disk[Path(k)].state = "written"
            /\ disk[Path(k)].NX = Str(Cardinality(DistinctX(matrix_sizing, inputs[k].layout)))
            /\ disk[Path(k)].NY = Str(Cardinality(DistinctY(matrix_sizing, inputs[k].layout)))

\* A file emitted under matrix sizing whose layout mixes LEDs with and
\* without a matrix, and whose width differs from the number of distinct raw
\* x values.
C9_Witness ==
    /\ matrix_sizing
    /\ HoldsOutputOf(1)
    /\ \E i, j \in 1..Len(inputs[1].layout) :
          inputs[1].layout[i].hasMatrix /\ ~inputs[1].layout[j].hasMatrix
    /\ disk[Path(1)].NX # Str(Cardinality(DistinctX(FALSE, inputs[1].layout)))

\* Each backslash and each double quote preceded by one backslash, in one pass.
RECURSIVE EscapedFrom(_, _)
EscapedFrom(label, j) ==
    IF j > Len(label) THEN <<>>
    ELSE (IF label[j] \in {"\\", "\""} THEN <<"\\", label[j]>> ELSE <<label[j]>>)
         \o EscapedFrom(label, j + 1)

\* The number of backslashes that end right before position q.
RECURSIVE BackslashRun(_, _)
BackslashRun(name, q) ==
    IF q > 1 /\ name[q - 1] = "\\" THEN 1 + BackslashRun(name, q - 1) ELSE 0

\* Reading left to right, a backslash stands for the character after it.
RECURSIVE UnescapedFrom(_, _)
UnescapedFrom(name, j) ==
    IF j > Len(name) THEN <<>>
    ELSE IF name[j] = "\\" /\ j < Len(name)
    THEN <<name[j + 1]>> \o UnescapedFrom(name, j + 2)
    ELSE <<name[j]>> \o UnescapedFrom(name, j + 1)

\* The LEDs of doc are all named by an ASCII label of the metadata.
AllAsciiLabelled(doc) ==
    \A i \in 1..Len(doc.layout) :
        /\ HasMatch(doc, doc.layout[i])
        /\ Matched(doc, doc.layout[i]).hasLabel
        /\ IsAscii(Matched(doc, doc.layout[i]).label)

\* The names array of such a document, each name its label escaped.
EscapedNames(doc) ==
    JoinNames([i \in 1..Len(doc.layout) |-> EscapedFrom(Matched(doc, doc.layout[i]).label, 1)])

\* C10: the name of an ASCII label is the label with every backslash doubled
\* and every double quote preceded by a backslash; every double quote of the
\* name follows an odd run of backslashes, and un-escaping the name gives the
\* label back; the names array of the emitted file holds these names.
C10_EscapingLaw ==
    /\ pc = "led" =>
          \A i \in 1..Len(vkeynames) :
              LET doc == inputs[fileIdx]
                  led == Layout[i]
                  named == HasMatch(doc, led) /\ Matched(doc, led).hasLabel
                           /\ IsAscii(Matched(doc, led).label)
                  label == Matched(doc, led).label
                  name == vkeynames[i]
              IN  named =>
                      /\ name = EscapedFrom(label, 1)
                      /\ \A q \in 1..Len(name) :
                            name[q] = "\"" => BackslashRun(name, q) % 2 = 1
                      /\ UnescapedFrom(name, 1) = label
    /\ \A k \in 1..Len(inputs) :
          (HoldsOutputOf(k) /\ AllAsciiLabelled(inputs[k])) =>
              disk[Path(k)].VKNAMES = EscapedNames(inputs[k])

====
